---- MODULE Spec2Model ----
(***************************************************************************)
(* Work-queue benchmark: a worker pool over one of four queue variants     *)
(* (skip_locked, delete_returning, partitioned on PostgreSQL; a consumer   *)
(* group on a Valkey stream), the shared MetricsCollector, and the         *)
(* partition assignment of the partitioned workers.                        *)
(***************************************************************************)
EXTENDS Integers, Sequences, FiniteSets, Bags, TLC

\* ------------------------------------------------------------- bounds
\* Size of the worker pool (args.workers), scaled down.
NumWorkers == 2
\* Number of jobs the producer enqueues during a run.
MaxJobs == 2
\* Backend calls that raise during a run (transient backend errors).
MaxFaults == 1
\* valkey_worker_batch_size (50 in config.py), scaled down.
BatchSize == 2
\* The sweep cadence of ValkeyWorker.run (10 in the source), scaled down.
ClaimEvery == 2
\* QUEUE_TYPES['partitioned']['partitions'] (16 in config.py), scaled down.
QueuePartitions == 2
\* BENCHMARK['num_workers'] (10 in config.py), scaled down.
ConfigNumWorkers == 1

\* Producer.run: seconds a run lasts (--duration).
MaxDuration == 2
\* count of xpending_range (10 in the source), scaled down.
XPendingCount == 2
\* Producer.run: the most the clock runs ahead of the schedule pointer, in
\* clock units of 1 / rate seconds.
MaxLag == 2
\* Entries a crashed consumer has left pending: more than a sweep lists.
Backlog == 3

\* ---------------------------------------------------- program constants
\* BENCHMARK['worker_poll_interval_ms']
WorkerPollIntervalMs == 10
\* rate // 100 of Producer.run: 100 batches per second.
BatchesPerSecond == 100
\* BENCHMARK['metrics_interval'], in units of the collector's clock.
MetricsInterval == 1
\* BENCHMARK['num_workers'] and QUEUE_TYPES['partitioned']['partitions'].
DefaultNumWorkers == 10
DefaultPartitions == 16
\* produce_pg_batch: partition_key = random.randint(0, 15)
MaxPartitionKey == 15

\* MetricsCollector threads: recording threads and samples each records.
NumRecorders == 2
SamplesEach == 2
\* Partition assignment: configurations tried.
MaxPartitions == 5
MaxPoolWorkers == 5
\* Ticks of the clock during a run.
MaxClock == 2
\* Snapshot inputs: up to MaxSamples latencies, each in 1 .. MaxLatency.
MaxSamples == 4
MaxLatency == 3

Workers == 0 .. (NumWorkers - 1)
Recorders == 1 .. NumRecorders
Free == 0
MetricsThread == -1
None == [jobs_processed |-> -1, n |-> -1]
Jobs == 1 .. MaxJobs
NoJob == 0
NoWorker == -1
\* A Producer that is not part of the run.
NoProducer == [pc |-> "none"]
PGVariants == {"skip_locked", "delete_returning", "partitioned"}
Variants == PGVariants \cup {"stream"}

VARIABLES
    queue_type,   \* the variant the pool drives (args.queue_type, or "stream")
    produced,     \* number of jobs the producer has enqueued so far
    store,        \* per job: its state in the backend store
    wk,           \* per worker: its position in its loop, its locals, and
                  \* the acknowledge (complete, xack) and record_jobs calls
                  \* of its current iteration
    metrics,      \* the shared MetricsCollector: jobs_processed, latencies
    ackCalls,     \* per job: acknowledge calls that returned without error
    faults,       \* backend calls that raised so far
    lock,         \* MetricsCollector.lock: Free, or the thread holding it
    rec,          \* per recording thread: its position in record_job(s)
    snap,         \* the metrics thread: its position in get_metrics, its result
    cfg,          \* BENCHMARK['num_workers'] and the partition count
    args_workers, \* args.workers of main
    pool,         \* self.partitions of the workers main has constructed
    now,          \* time.time(), in ticks since the collector was constructed
    running,      \* per worker: its Event self.running is set
    main,         \* the main thread of the worker process: position, workers
                  \* constructed, the signal handler
    prod,         \* the Producer: its position in run and its fields
    group         \* the consumer group of the stream: "created" by the
                  \* constructors, "missing", or "recreated" by a worker

poolVars == <<queue_type, produced, store, wk, ackCalls, faults>>
aggVars == <<lock, rec, snap>>
partVars == <<cfg, args_workers, pool>>
lifeVars == <<now, running, main, prod, group>>
vars == <<poolVars, metrics, aggVars, partVars, lifeVars>>
nonProd == <<queue_type, produced, store, wk, ackCalls, metrics, aggVars,
             partVars, now, running, main, group>>
\* What the worker pool, the collector's threads and main leave alone.
nonPool == <<aggVars, partVars, lifeVars>>
nonAgg == <<poolVars, partVars, lifeVars>>
nonPart == <<poolVars, metrics, aggVars, lifeVars>>
nonGroup == <<aggVars, partVars, now, running, main, prod>>

\* ------------------------------------------------------------ helpers
Min(a, b) == IF a < b THEN a ELSE b
Max(a, b) == IF a > b THEN a ELSE b

SeqToSet(s) == {s[i] : i \in DOMAIN s}

RECURSIVE SortedSeq(_)
SortedSeq(S) ==
    IF S = {} THEN <<>>
    ELSE LET m == CHOOSE x \in S : \A y \in S : x <= y
         IN <<m>> \o SortedSeq(S \ {m})

FirstN(s, n) == SubSeq(s, 1, Min(n, Len(s)))

\* The elements of a list with their numbers of occurrences.
SeqToBag(s) ==
    [x \in SeqToSet(s) |-> Cardinality({i \in DOMAIN s : s[i] = x})]

\* sum(s), summing the two halves of the list.
RECURSIVE SumSeq(_)
SumSeq(s) ==
    IF Len(s) = 0 THEN 0
    ELSE IF Len(s) = 1 THEN s[1]
    ELSE LET h == Len(s) \div 2
         IN SumSeq(SubSeq(s, 1, h)) + SumSeq(SubSeq(s, h + 1, Len(s)))

\* Number of samples of bag B smaller than v.
Below(B, v) ==
    BagCardinality([x \in {y \in BagToSet(B) : y < v} |-> CopiesIn(x, B)])

SortedLatenciesDescending(B) ==
    [i \in 1 .. BagCardinality(B) |->
        CHOOSE v \in BagToSet(B) :
            LET k == BagCardinality(B) + 1 - i
            IN Below(B, v) < k /\ k <= Below(B, v) + CopiesIn(v, B)]

\* sorted(self.latencies), the list kept as a bag: position i holds the
\* sample with fewer than i samples below it and at least i up to it.
SortedLatencies(B) ==
    [i \in 1 .. BagCardinality(B) |->
        CHOOSE v \in BagToSet(B) :
            Below(B, v) < i /\ i <= Below(B, v) + CopiesIn(v, B)]

\* ------------------------------------------------- partition assignment
\* self.partitions of PostgreSQLWorker.__init__ for worker_id, given
\* BENCHMARK['num_workers'] and QUEUE_TYPES['partitioned']['partitions'].
PartitionsOfCeil(worker_id, num_workers, num_partitions) ==
    LET partitions_per_worker ==
            (num_partitions + num_workers - 1) \div num_workers
        start_partition == worker_id % num_partitions
    IN [i \in 1 .. partitions_per_worker |->
            (start_partition + (i - 1)) % num_partitions]

PartitionsOf(worker_id, num_workers, num_partitions) ==
    LET partitions_per_worker == Max(1, num_partitions \div num_workers)
        start_partition == worker_id % num_partitions
    IN [i \in 1 .. partitions_per_worker |->
            (start_partition + (i - 1)) % num_partitions]

\* ------------------------------------------------------ MetricsCollector
StoreCountOfBatch(m, loaded, latencies_list) ==
    [m EXCEPT !.jobs_processed = Len(latencies_list)]

\* self.jobs_processed += len(latencies_list): the store of the sum computed
\* from the value loaded before.
StoreCount(m, loaded, latencies_list) ==
    [m EXCEPT !.jobs_processed = loaded + Len(latencies_list)]

\* self.latencies.extend(latencies_list) / self.latencies.append(latency_ms).
\* The list is only ever read sorted, so it is kept as a bag.
ExtendLatenciesHead(m, latencies_list) ==
    [m EXCEPT !.latencies = @ (+) SeqToBag(FirstN(latencies_list, 1))]

ExtendLatencies(m, latencies_list) ==
    [m EXCEPT !.latencies = @ (+) SeqToBag(latencies_list)]

RecordJobHead(m, latencies_list) ==
    ExtendLatencies(StoreCount(m, m.jobs_processed, FirstN(latencies_list, 1)),
                    FirstN(latencies_list, 1))

\* record_job / record_jobs as a whole: both updates, under the lock.
RecordJobs(m, latencies_list) ==
    ExtendLatencies(StoreCount(m, m.jobs_processed, latencies_list),
                    latencies_list)

\* ---------------------------------------------------------------- Init
\* main: for i in range(args.workers): PostgreSQLWorker(i, ...)
Constructed(n, c) ==
    [i \in 1 .. n |-> PartitionsOf(i - 1, c.num_workers, c.partitions)]

InitWorker(w, qt, parts) ==
    [pc |-> "fetch",
     job |-> NoJob,
     partitions |-> IF qt = "partitioned" THEN parts ELSE <<>>,
     pidx |-> 1,
     messages |-> <<>>,
     message_ids_to_ack |-> <<>>,
     batch_latencies |-> <<>>,
     pending |-> <<>>,
     claimed_ids |-> <<>>,
     claim_counter |-> 0,
     jobs_processed |-> 0,
     iter_acks |-> 0,
     iter_updates |-> 0, errors |-> 0,
     backoff |-> 0]

NoEntry ==
    [st |-> "none", owner |-> NoWorker, idle |-> "lt", partition_key |-> 0,
     poison |-> FALSE]

\* MetricsCollector.__init__
\* The metrics thread of main, started into its first sleep: result is the
\* value get_metrics returned last, elapsed the 'elapsed' entry of the
\* snapshot under construction, wake the time its sleep ends, sink the lines
\* of the output file.
NewSnap ==
    [pc |-> "idle", result |-> None, elapsed |-> 0, wake |-> MetricsInterval,
     sink |-> <<>>]

InitMetrics ==
    metrics = [jobs_processed |-> 0, latencies |-> EmptyBag, start_time |-> 0]

\* The process is up: the collector was constructed at time 0, every worker
\* is constructed with its Event set and its thread started, main waits in
\* join; the Producer (another process) is constructed and has not run.
\* The constructors have created the consumer group.
InitProcess ==
    /\ now = 0
    /\ running = [w \in Workers |-> TRUE]
    /\ main = [pc |-> "join", started |-> NumWorkers, unreachable |-> {}]
    /\ group = "created"

InitLife == InitProcess /\ prod = NoProducer

\* No thread is inside the collector.
InitAgg ==
    /\ lock = Free
    /\ rec = [t \in Recorders |-> [pc |-> "idle", n |-> 0, tmp |-> 0, left |-> 0]]
    /\ snap = NewSnap

\* The pool after main has constructed its workers.
InitPool(types) ==
    /\ queue_type \in types
    /\ produced = 0
    /\ store = [j \in Jobs |-> NoEntry]
    /\ cfg = [num_workers |-> ConfigNumWorkers, partitions |-> QueuePartitions]
    /\ args_workers = NumWorkers
    /\ pool = Constructed(args_workers, cfg)
    /\ wk = [w \in Workers |-> InitWorker(w, queue_type, pool[w + 1])]
    /\ ackCalls = [j \in Jobs |-> 0]
    /\ faults = 0

Init == InitPool(Variants) /\ InitMetrics /\ InitAgg /\ InitLife

\* ------------------------------------------------------------ producer
\* One job committed to the store by produce_pg_batch / produce_valkey_batch.
\* Job ids (and stream entry ids) grow in the order of production.
Enqueue ==
    /\ produced < MaxJobs
    /\ \E pk \in IF queue_type = "partitioned"
                 THEN 0 .. (QueuePartitions - 1) ELSE {0} :
          store' = [store EXCEPT ![produced + 1] =
                      [st |-> "queued", owner |-> NoWorker, idle |-> "lt",
                       partition_key |-> pk, poison |-> FALSE]]
    /\ produced' = produced + 1
    /\ UNCHANGED <<queue_type, wk, metrics, ackCalls, faults>>
    /\ UNCHANGED nonPool

\* A backend call raises: a transient error of the store or the connection.
Fault == /\ faults < MaxFaults
         /\ faults' = faults + 1

\* ------------------------------------------------------ Producer.run
\* Producer.__init__ for a backend, a rate and a duration. committed is the
\* number of jobs visible in the store, uncommitted the rows inserted by the
\* open transaction, closed the close calls on the connection, summary the
\* "Total jobs produced" of the final report (-1: not printed), submitted
\* the batch writes issued, crashed whether an exception has left run. The
\* clock of a producer counts units of
\* 1 / rate seconds: start_time, next_batch_time and interval are in these
\* units.
Rates == {1, 100, 250, 350}

NewProducer(backend, rate, duration) ==
    [pc |-> "start", backend |-> backend, rate |-> rate,
     duration |-> duration, total_jobs |-> rate * duration,
     jobs_produced |-> 0, batch_size |-> 0, committed |-> 0,
     uncommitted |-> 0, closed |-> 0, summary |-> -1, submitted |-> 0,
     failed |-> 0, interrupted |-> FALSE, crashed |-> FALSE,
     start_time |-> 0, next_batch_time |-> 0, interval |-> 0]

\* batch_size = max(1, self.rate // 100)
BatchSizeOfCeil(rate) == Max(1, (rate + BatchesPerSecond - 1) \div BatchesPerSecond)

BatchSizeOf(rate) == Max(1, rate \div BatchesPerSecond)

\* Clock units in a second.
UnitsPerSecond(rate) == rate

\* interval = batch_size / self.rate seconds, in clock units.
IntervalOf(batch_size, rate) == (batch_size * UnitsPerSecond(rate)) \div rate

\* run up to the try block.
ProducerStart ==
    /\ prod.pc = "start"
    /\ prod' = [prod EXCEPT !.pc = "loop",
                            !.batch_size = BatchSizeOf(prod.rate),
                            !.start_time = now,
                            !.next_batch_time = now,
                            !.interval = IntervalOf(BatchSizeOf(prod.rate),
                                                    prod.rate)]
    /\ UNCHANGED <<faults, nonProd>>

\* while self.jobs_produced < self.total_jobs
ProducerLoop ==
    /\ prod.pc = "loop"
    /\ prod' = [prod EXCEPT !.pc = IF prod.jobs_produced < prod.total_jobs
                                   THEN "write" ELSE "finally"]
    /\ UNCHANGED <<faults, nonProd>>

\* produce_pg_batch: execute_values inserts the batch in the open
\* transaction. produce_valkey_batch: pipeline.execute() sends the queued
\* xadd commands as one MULTI/EXEC transaction.
ProducerWrite ==
    /\ prod.pc = "write"
    /\ \/ /\ prod.backend = "pg"
          /\ prod' = [prod EXCEPT !.pc = "commit", !.submitted = @ + 1,
                                  !.uncommitted = @ + prod.batch_size]
          /\ UNCHANGED faults
       \/ /\ prod.backend = "valkey"
          /\ prod' = [prod EXCEPT !.pc = "credit", !.submitted = @ + 1,
                                  !.committed = @ + prod.batch_size]
          /\ UNCHANGED faults
       \/ \* the write raises; nothing of the batch reached the store
          /\ Fault
          /\ prod' = [prod EXCEPT !.submitted = @ + 1, !.failed = @ + 1,
                                  !.pc = IF prod.backend = "pg"
                                         THEN "rollback" ELSE "pace"]
    /\ UNCHANGED nonProd

\* produce_pg_batch: self.conn.commit()
ProducerCommit ==
    /\ prod.pc = "commit"
    /\ \/ /\ prod' = [prod EXCEPT !.pc = "credit",
                                  !.committed = @ + prod.uncommitted,
                                  !.uncommitted = 0]
          /\ UNCHANGED faults
       \/ /\ Fault
          /\ prod' = [prod EXCEPT !.pc = "rollback", !.failed = @ + 1]
    /\ UNCHANGED nonProd

\* self.jobs_produced += batch_size; return batch_size.
ProducerCredit ==
    /\ prod.pc = "credit"
    /\ prod' = [prod EXCEPT !.pc = "pace",
                            !.jobs_produced = @ + prod.batch_size]
    /\ UNCHANGED <<faults, nonProd>>

ProducerRollbackSkipped ==
    /\ prod.pc = "rollback"
    /\ prod' = [prod EXCEPT !.pc = "pace"]
    /\ UNCHANGED <<faults, nonProd>>

\* except Exception: self.conn.rollback(); return 0. On a connection that
\* the failed write has left closed, rollback raises inside the handler:
\* the exception leaves produce_pg_batch and, through the finally block,
\* run.
ProducerRollback ==
    /\ prod.pc = "rollback"
    /\ \/ prod' = [prod EXCEPT !.pc = "pace", !.uncommitted = 0]
       \/ prod' = [prod EXCEPT !.pc = "finally", !.crashed = TRUE]
    /\ UNCHANGED <<faults, nonProd>>

NextBatchTimeFromNow(p) ==
    (IF now > p.next_batch_time THEN now ELSE p.next_batch_time) + p.interval

\* next_batch_time += interval
NextBatchTime(p) == p.next_batch_time + p.interval

\* Rate limiting: the pointer is advanced, and the producer sleeps if
\* sleep_time = next_batch_time - time.time() is positive. The progress
\* line changes no state.
ProducerPace ==
    /\ prod.pc = "pace"
    /\ LET sleep_time == NextBatchTime(prod) - now
       IN prod' = [prod EXCEPT !.next_batch_time = NextBatchTime(prod),
                               !.pc = IF sleep_time > 0 THEN "sleep"
                                                         ELSE "loop"]
    /\ UNCHANGED <<faults, nonProd>>

\* time.sleep(sleep_time) returns once sleep_time has passed.
ProducerWake ==
    /\ prod.pc = "sleep"
    /\ now >= prod.next_batch_time
    /\ prod' = [prod EXCEPT !.pc = "loop"]
    /\ UNCHANGED <<faults, nonProd>>

\* Time passes for the producer: a unit of its clock. A run falls behind
\* its schedule by at most MaxLag units.
ProducerTick ==
    /\ prod.pc \notin {"none", "done"}
    /\ now < prod.next_batch_time + MaxLag
    /\ now' = now + 1
    /\ UNCHANGED <<poolVars, metrics, aggVars, partVars, running, main, prod,
                   group>>

\* KeyboardInterrupt raised at any point inside the try block of run.
ProducerInterrupt ==
    /\ prod.pc \in {"loop", "write", "commit", "credit", "rollback", "pace",
                    "sleep"}
    /\ prod' = [prod EXCEPT !.pc = "finally", !.interrupted = TRUE]
    /\ UNCHANGED <<faults, nonProd>>

\* finally: the final report.
ProducerFinally ==
    /\ prod.pc = "finally"
    /\ prod' = [prod EXCEPT !.pc = "close", !.summary = prod.jobs_produced]
    /\ UNCHANGED <<faults, nonProd>>

\* finally: self.conn.close() / self.valkey.close(); the open transaction
\* of a closed connection is discarded.
ProducerClose ==
    /\ prod.pc = "close"
    /\ prod' = [prod EXCEPT !.pc = "done", !.closed = @ + 1,
                            !.uncommitted = 0]
    /\ UNCHANGED <<faults, nonProd>>

NextProducer ==
    \/ ProducerStart
    \/ ProducerLoop
    \/ ProducerWrite
    \/ ProducerCommit
    \/ ProducerCredit
    \/ ProducerRollback
    \/ ProducerPace
    \/ ProducerWake
    \/ ProducerTick
    \/ ProducerInterrupt
    \/ ProducerFinally
    \/ ProducerClose

\* A Producer constructed for either backend, a rate and a duration.
InitProducer ==
    /\ InitPool({"skip_locked"})
    /\ InitMetrics
    /\ InitAgg
    /\ InitProcess
    /\ prod \in {NewProducer(b, r, d) : b \in {"pg", "valkey"}, r \in Rates,
                                        d \in 1 .. MaxDuration}

SpecProducer == InitProducer /\ [][NextProducer]_vars

\* ------------------------------------------------- row store (PostgreSQL)
\* The stored procedures are not part of the sources; they are modelled
\* from the specification of the variants.
Visible(j, pk) ==
    /\ store[j].st = "queued"
    /\ queue_type = "partitioned" => store[j].partition_key = pk

\* get_next_job / get_next_job_part lock the row for the worker;
\* get_next_job_dr removes it from the queue table.
GetNextJob(j, w) ==
    [store EXCEPT ![j].st = IF queue_type = "delete_returning"
                            THEN "removed" ELSE "leased",
                  ![j].owner = IF queue_type = "delete_returning"
                               THEN NoWorker ELSE w]

\* complete_job / complete_job_part mark the row completed;
\* complete_job_dr inserts the already removed job into the archive.
CompleteJob(j) ==
    [store EXCEPT ![j].st = "done", ![j].owner = NoWorker]

\* complete_job_part(partition_key, job_id) marks the row job_id of the
\* partition partition_key completed; no row of another partition matches.
CompleteJobPart(partition_key, j) ==
    IF store[j].partition_key = partition_key THEN CompleteJob(j) ELSE store

\* The row becomes visible to fetchers again when its lease expires.
LeaseExpire(j) ==
    /\ queue_type \in {"skip_locked", "partitioned"}
    /\ store[j].st = "leased"
    /\ store' = [store EXCEPT ![j].st = "queued", ![j].owner = NoWorker]
    /\ UNCHANGED <<queue_type, produced, wk, metrics, ackCalls, faults>>
    /\ UNCHANGED nonPool

\* ------------------------------------------------------ PostgreSQLWorker
PollIntervalGrowing(r) == WorkerPollIntervalMs * (2 ^ faults)

\* The duration of the back-off of worker r, in ms.
PollInterval(r) == WorkerPollIntervalMs

\* time.sleep(BENCHMARK['worker_poll_interval_ms'] / 1000.0)
Sleeping(r) == [r EXCEPT !.pc = "sleep", !.backoff = PollInterval(r)]

AfterErrorBackoff(r) ==
    Sleeping([r EXCEPT !.job = NoJob, !.errors = @ + 1])

\* process_job_basic / process_job_delete_returning, except Exception: the
\* error is printed and the method returns False; run calls it again.
\* errors counts the iterations of the worker that ended this way.
AfterError(r) == [r EXCEPT !.pc = "fetch", !.job = NoJob, !.errors = @ + 1]

\* process_job_basic / process_job_delete_returning: the get-next call.
PGFetch(w) ==
    /\ queue_type \in {"skip_locked", "delete_returning"}
    /\ wk[w].pc = "fetch"
    /\ \/ \* the call raises: caught, return False
          /\ Fault
          /\ wk' = [wk EXCEPT ![w] = AfterError(wk[w])]
          /\ UNCHANGED store
       \/ \* no job: sleep the poll interval, return False
          /\ \A j \in Jobs : ~Visible(j, 0)
          /\ wk' = [wk EXCEPT ![w] = Sleeping(wk[w])]
          /\ UNCHANGED <<store, faults>>
       \/ \E j \in Jobs :
            /\ Visible(j, 0)
            /\ store' = GetNextJob(j, w)
            /\ wk' = [wk EXCEPT ![w].pc = "process", ![w].job = j]
            /\ UNCHANGED faults
    /\ UNCHANGED <<queue_type, produced, metrics, ackCalls>>
    /\ UNCHANGED nonPool

\* process_job_partitioned: the get-next call on the current partition of
\* the loop over self.partitions.
PartFetch(w) ==
    /\ queue_type = "partitioned"
    /\ wk[w].pc = "fetch"
    /\ LET r == wk[w]
           partition_key == r.partitions[r.pidx]
           next == IF r.pidx < Len(r.partitions)
                   THEN [r EXCEPT !.pidx = r.pidx + 1]
                   ELSE Sleeping(r)
       IN \/ \* the call raises: caught, continue with the next partition
             /\ Fault
             /\ wk' = [wk EXCEPT ![w] = next]
             /\ UNCHANGED store
          \/ \* no job in this partition: continue
             /\ \A j \in Jobs : ~Visible(j, partition_key)
             /\ wk' = [wk EXCEPT ![w] = next]
             /\ UNCHANGED <<store, faults>>
          \/ \E j \in Jobs :
               /\ Visible(j, partition_key)
               /\ store' = GetNextJob(j, w)
               /\ wk' = [wk EXCEPT ![w].pc = "process", ![w].job = j]
               /\ UNCHANGED faults
    /\ UNCHANGED <<queue_type, produced, metrics, ackCalls>>
    /\ UNCHANGED nonPool

\* time.sleep(worker_poll_interval_ms) is over; the call returns False and
\* run starts the next iteration.
PGWake(w) ==
    /\ queue_type \in PGVariants
    /\ wk[w].pc = "sleep"
    /\ wk' = [wk EXCEPT ![w].pc = "fetch", ![w].pidx = 1, ![w].iter_acks = 0,
                        ![w].backoff = 0]
    /\ UNCHANGED <<queue_type, produced, store, metrics, ackCalls, faults>>
    /\ UNCHANGED nonPool

\* simulate_processing of the fetched job.
PGProcess(w) ==
    /\ queue_type \in PGVariants
    /\ wk[w].pc = "process"
    /\ wk' = [wk EXCEPT ![w].pc = "complete"]
    /\ UNCHANGED <<queue_type, produced, store, metrics, ackCalls, faults>>
    /\ UNCHANGED nonPool

AckPartitionFirst(r) == r.partitions[1]

\* process_job_partitioned: the partition_key passed to the complete call
\* is the loop variable, the partition of the get-next call.
AckPartition(r) == r.partitions[r.pidx]

\* The complete call of the three process_job_* methods.
PGComplete(w) ==
    /\ queue_type \in PGVariants
    /\ wk[w].pc = "complete"
    /\ LET r == wk[w]
       IN \/ /\ store' = IF queue_type = "partitioned"
                         THEN CompleteJobPart(AckPartition(r), r.job)
                         ELSE CompleteJob(r.job)
             /\ ackCalls' = [ackCalls EXCEPT ![r.job] = @ + 1]
             /\ wk' = [wk EXCEPT ![w].pc = "record", ![w].iter_acks = @ + 1]
             /\ UNCHANGED faults
          \/ \* the call raises: skip_locked and delete_returning return
             \* False; partitioned continues with the next partition
             /\ Fault
             /\ wk' = [wk EXCEPT ![w] =
                   IF queue_type # "partitioned"
                   THEN AfterError(r)
                   ELSE IF r.pidx < Len(r.partitions)
                   THEN [r EXCEPT !.pc = "fetch", !.job = NoJob,
                                  !.pidx = r.pidx + 1,
                                  !.iter_acks = @ + 1]
                   ELSE Sleeping([r EXCEPT !.job = NoJob,
                                           !.iter_acks = @ + 1])]
             /\ UNCHANGED <<store, ackCalls>>
    /\ UNCHANGED <<queue_type, produced, metrics>>
    /\ UNCHANGED nonPool

\* self.metrics.record_job(latency_ms)
PGRecord(w) ==
    /\ queue_type \in PGVariants
    /\ wk[w].pc = "record"
    /\ metrics' = RecordJobs(metrics, <<wk[w].job>>)
    /\ wk' = [wk EXCEPT ![w].pc = "count"]
    /\ UNCHANGED <<queue_type, produced, store, ackCalls, faults>>
    /\ UNCHANGED nonPool

\* self.jobs_processed += 1; return True
PGCount(w) ==
    /\ queue_type \in PGVariants
    /\ wk[w].pc = "count"
    /\ wk' = [wk EXCEPT ![w].pc = "fetch", ![w].job = NoJob, ![w].pidx = 1,
                        ![w].jobs_processed = @ + 1, ![w].iter_acks = 0]
    /\ UNCHANGED <<queue_type, produced, store, metrics, ackCalls, faults>>
    /\ UNCHANGED nonPool


\* ------------------------------------------------ stream store (Valkey)
\* Idle time of a pending entry against the 5000 ms threshold:
\* "lt" below it, "eq" exactly on it, "gt" above it.
IdleExceeds(idle) == idle = "gt"

MinIdleIgnored(idle) == TRUE

\* min_idle_time=5000 of xclaim: the store claims an entry idle for at
\* least that long.
MinIdleReached(idle) == idle \in {"eq", "gt"}

\* Time passes for a pending entry.
Age(j) ==
    /\ queue_type = "stream"
    /\ store[j].st = "pending"
    /\ store[j].idle # "gt"
    /\ store' = [store EXCEPT ![j].idle = IF @ = "lt" THEN "eq" ELSE "gt"]
    /\ UNCHANGED <<queue_type, produced, wk, metrics, ackCalls, faults>>
    /\ UNCHANGED nonPool

\* xreadgroup(streams={stream: '>'}, count): the next entries never
\* delivered to the group, in id order; they enter the pending list of w.
Undelivered == SortedSeq({j \in DOMAIN store : store[j].st = "queued"})

XReadGroup(ids, w) ==
    [j \in DOMAIN store |-> IF j \in SeqToSet(ids)
                    THEN [store[j] EXCEPT !.st = "pending", !.owner = w,
                                          !.idle = "lt"]
                    ELSE store[j]]

\* xack(stream, group, *ids): removes the ids from the group's pending list,
\* whoever owns them; ids that are not pending are ignored.
XAck(ids) ==
    [j \in DOMAIN store |-> IF j \in SeqToSet(ids) /\ store[j].st = "pending"
                    THEN [store[j] EXCEPT !.st = "done", !.owner = NoWorker]
                    ELSE store[j]]

\* xpending_range(min='-', max='+', count=10)
XPendingRange ==
    FirstN(SortedSeq({j \in DOMAIN store : store[j].st = "pending"}),
           XPendingCount)

\* xclaim(consumername=w, min_idle_time=5000, message_ids=[j]) claims j when
\* it is still pending and idle for at least min_idle_time.
XClaimable(j) == store[j].st = "pending" /\ MinIdleReached(store[j].idle)

XClaim(j, w) == [store EXCEPT ![j].owner = w, ![j].idle = "lt"]

\* The consumer group exists: xreadgroup, xpending_range and xclaim raise
\* NOGROUP when it does not.
GroupExists == group # "missing"

\* The stream key is deleted (and created again by the next xadd): its
\* entries, its consumer group and the group's pending list are gone.
GroupLost ==
    /\ queue_type = "stream"
    /\ group = "created"
    /\ group' = "missing"
    /\ store' = [j \in DOMAIN store |-> NoEntry]
    /\ UNCHANGED <<queue_type, produced, wk, metrics, ackCalls, faults>>
    /\ UNCHANGED nonGroup

XGroupCreateSkipped(g) == g

\* xgroup_create(name, groupname, id='0', mkstream=True): every entry of
\* the stream is undelivered for the new group.
XGroupCreate(g) == "recreated"

\* ----------------------------------------------------------- ValkeyWorker
AfterProcessNoSweep(r) ==
    [r EXCEPT !.claim_counter = 0,
              !.messages = <<>>,
              !.message_ids_to_ack = <<>>,
              !.batch_latencies = <<>>,
              !.iter_acks = 0,
              !.iter_updates = 0,
              !.pc = "fetch"]

AfterProcessLate(r) ==
    LET c == r.claim_counter + 1
    IN [r EXCEPT !.claim_counter = c,
                 !.messages = <<>>,
                 !.message_ids_to_ack = <<>>,
                 !.batch_latencies = <<>>,
                 !.iter_acks = IF c > ClaimEvery THEN @ ELSE 0,
                 !.iter_updates = IF c > ClaimEvery THEN @ ELSE 0,
                 !.pc = IF c > ClaimEvery THEN "xpending" ELSE "fetch"]

\* run: process_messages has returned; claim_counter += 1 and the sweep
\* starts when the counter has reached the cadence.
AfterProcess(r) ==
    LET c == r.claim_counter + 1
    IN [r EXCEPT !.claim_counter = c,
                 !.messages = <<>>,
                 !.message_ids_to_ack = <<>>,
                 !.batch_latencies = <<>>,
                 !.iter_acks = IF c >= ClaimEvery THEN @ ELSE 0,
                 !.iter_updates = IF c >= ClaimEvery THEN @ ELSE 0,
                 !.pc = IF c >= ClaimEvery THEN "xpending" ELSE "fetch"]

\* run: claim_pending_messages has returned; claim_counter = 0.
AfterClaim(r) ==
    [r EXCEPT !.claim_counter = 0,
              !.pending = <<>>,
              !.claimed_ids = <<>>,
              !.batch_latencies = <<>>,
              !.iter_acks = 0,
              !.iter_updates = 0,
              !.pc = "fetch"]

\* process_messages: the xreadgroup call.
StreamRead(w) ==
    /\ queue_type = "stream"
    /\ wk[w].pc = "fetch"
    /\ \/ \* the call raises: caught by the outer handler, return 0
          /\ Fault
          /\ wk' = [wk EXCEPT ![w] = AfterProcess(wk[w])]
          /\ UNCHANGED <<store, group>>
       \/ \* the call raises NOGROUP: the outer handler creates the group
          \* (an error of the create call is passed over), return 0
          /\ ~GroupExists
          /\ \/ group' = XGroupCreate(group) /\ UNCHANGED faults
             \/ Fault /\ UNCHANGED group
          /\ wk' = [wk EXCEPT ![w] = AfterProcess(wk[w])]
          /\ UNCHANGED store
       \/ \* nothing new within the block time: return 0
          /\ GroupExists
          /\ Undelivered = <<>>
          /\ wk' = [wk EXCEPT ![w] = AfterProcess(wk[w])]
          /\ UNCHANGED <<store, faults, group>>
       \/ /\ GroupExists
          /\ Undelivered # <<>>
          /\ LET ids == FirstN(Undelivered, BatchSize)
             IN /\ store' = XReadGroup(ids, w)
                /\ wk' = [wk EXCEPT ![w].pc = "process", ![w].messages = ids]
          /\ UNCHANGED <<faults, group>>
    /\ UNCHANGED <<queue_type, produced, metrics, ackCalls>>
    /\ UNCHANGED nonGroup

SucceededAll(messages, k) == messages

\* The messages of a batch whose processing did not raise, when the k-th
\* one raised: the handler of the loop body continues with the next one.
Succeeded(messages, k) ==
    SubSeq(messages, 1, k - 1) \o SubSeq(messages, k + 1, Len(messages))

\* process_messages: the messages processed, with their latencies and ids
\* collected and self.jobs_processed counted; with nothing collected the
\* call returns 0 without xack and record_jobs.
Processed(r, ids) ==
    IF ids = <<>> THEN AfterProcess(r)
    ELSE [r EXCEPT !.pc = "xack",
                   !.message_ids_to_ack = ids,
                   !.batch_latencies = ids,
                   !.jobs_processed = @ + Len(ids)]

\* datetime.fromisoformat(created_at_str) raises for the entry on every
\* attempt.
Poison(j) == store[j].poison

\* The messages of a batch whose created_at field can be parsed.
Parsable(messages) == SelectSeq(messages, LAMBDA j : ~Poison(j))

\* process_messages: the loop over the fetched messages. The processing of
\* a message may raise before its latency and id are collected.
StreamProcess(w) ==
    /\ queue_type = "stream"
    /\ wk[w].pc = "process"
    /\ LET ok == Parsable(wk[w].messages)
       IN \/ /\ wk' = [wk EXCEPT ![w] = Processed(wk[w], ok)]
             /\ UNCHANGED faults
          \/ /\ Fault
             /\ \E k \in 1 .. Len(ok) :
                   wk' = [wk EXCEPT ![w] =
                             Processed(wk[w], Succeeded(ok, k))]
    /\ UNCHANGED <<queue_type, produced, store, metrics, ackCalls>>
    /\ UNCHANGED nonPool

\* process_messages: the batch xack; an error is caught and only printed.
StreamAck(w) ==
    /\ queue_type = "stream"
    /\ wk[w].pc = "xack"
    /\ \/ /\ store' = XAck(wk[w].message_ids_to_ack)
          /\ ackCalls' = [j \in DOMAIN ackCalls |->
                IF j \in SeqToSet(wk[w].message_ids_to_ack)
                THEN ackCalls[j] + 1 ELSE ackCalls[j]]
          /\ UNCHANGED faults
       \/ /\ Fault
          /\ UNCHANGED <<store, ackCalls>>
    /\ wk' = [wk EXCEPT ![w].pc = "record", ![w].iter_acks = @ + 1]
    /\ UNCHANGED <<queue_type, produced, metrics>>
    /\ UNCHANGED nonPool

\* process_messages: self.metrics.record_jobs(batch_latencies); return.
StreamRecord(w) ==
    /\ queue_type = "stream"
    /\ wk[w].pc = "record"
    /\ metrics' = RecordJobs(metrics, wk[w].batch_latencies)
    /\ wk' = [wk EXCEPT ![w] =
                 AfterProcess([wk[w] EXCEPT !.iter_updates = @ + 1])]
    /\ UNCHANGED <<queue_type, produced, store, ackCalls, faults>>
    /\ UNCHANGED nonPool

\* claim_pending_messages: the xpending_range call. The loop that follows
\* looks only at the listed entries whose idle time exceeds the threshold.
\* Without the group the call raises NOGROUP, which the outer handler
\* prints: return 0, as with nothing pending.
ClaimList(w) ==
    /\ queue_type = "stream"
    /\ wk[w].pc = "xpending"
    /\ \/ \* the call raises: caught by the outer handler, return 0
          /\ Fault
          /\ wk' = [wk EXCEPT ![w] = AfterClaim(wk[w])]
       \/ /\ LET idle == SelectSeq(XPendingRange,
                            LAMBDA j : IdleExceeds(store[j].idle))
             IN wk' = [wk EXCEPT ![w] =
                   IF idle = <<>> THEN AfterClaim(wk[w])
                   ELSE [wk[w] EXCEPT !.pc = "xclaim", !.pending = idle]]
          /\ UNCHANGED faults
    /\ UNCHANGED <<queue_type, produced, store, metrics, ackCalls>>
    /\ UNCHANGED nonPool

\* The loop of claim_pending_messages has handled the head of r.pending.
ClaimNext(r) ==
    LET rest == Tail(r.pending)
    IN [r EXCEPT !.pending = rest,
                 !.pc = IF rest # <<>> THEN "xclaim"
                        ELSE IF r.claimed_ids # <<>> THEN "claim_xack"
                        ELSE "claim_return"]

\* claim_pending_messages: the xclaim call for one listed entry and the
\* processing of what it returned.
ClaimOne(w) ==
    /\ queue_type = "stream"
    /\ wk[w].pc = "xclaim"
    /\ LET r == wk[w]
           j == Head(r.pending)
       IN \/ \* the call raises: caught, continue with the next entry
             /\ Fault
             /\ wk' = [wk EXCEPT ![w] = ClaimNext(r)]
             /\ UNCHANGED store
          \/ \* empty result: nothing to process
             /\ ~XClaimable(j)
             /\ wk' = [wk EXCEPT ![w] = ClaimNext(r)]
             /\ UNCHANGED <<store, faults>>
          \/ /\ XClaimable(j)
             /\ ~Poison(j)
             /\ store' = XClaim(j, w)
             /\ wk' = [wk EXCEPT ![w] =
                   ClaimNext([r EXCEPT
                       !.batch_latencies = Append(@, j),
                       !.claimed_ids = Append(@, j),
                       !.jobs_processed = @ + 1])]
             /\ UNCHANGED faults
          \/ \* the entry is claimed and its processing raises: caught,
             \* continue with the next entry
             /\ XClaimable(j)
             /\ IF Poison(j) THEN UNCHANGED faults ELSE Fault
             /\ store' = XClaim(j, w)
             /\ wk' = [wk EXCEPT ![w] = ClaimNext(r)]
    /\ UNCHANGED <<queue_type, produced, metrics, ackCalls>>
    /\ UNCHANGED nonPool

\* claim_pending_messages: the batch xack of the claimed ids; an error is
\* caught and only printed.
ClaimAck(w) ==
    /\ queue_type = "stream"
    /\ wk[w].pc = "claim_xack"
    /\ \/ /\ store' = XAck(wk[w].claimed_ids)
          /\ ackCalls' = [j \in DOMAIN ackCalls |->
                IF j \in SeqToSet(wk[w].claimed_ids)
                THEN ackCalls[j] + 1 ELSE ackCalls[j]]
          /\ UNCHANGED faults
       \/ /\ Fault
          /\ UNCHANGED <<store, ackCalls>>
    /\ wk' = [wk EXCEPT ![w].pc = "claim_record", ![w].iter_acks = @ + 1]
    /\ UNCHANGED <<queue_type, produced, metrics>>
    /\ UNCHANGED nonPool

\* claim_pending_messages: self.metrics.record_jobs(batch_latencies); return.
ClaimRecord(w) ==
    /\ queue_type = "stream"
    /\ wk[w].pc = "claim_record"
    /\ metrics' = RecordJobs(metrics, wk[w].batch_latencies)
    /\ wk' = [wk EXCEPT ![w] = AfterClaim(wk[w])]
    /\ UNCHANGED <<queue_type, produced, store, ackCalls, faults>>
    /\ UNCHANGED nonPool

\* claim_pending_messages returns with nothing claimed.
ClaimReturn(w) ==
    /\ queue_type = "stream"
    /\ wk[w].pc = "claim_return"
    /\ wk' = [wk EXCEPT ![w] = AfterClaim(wk[w])]
    /\ UNCHANGED <<queue_type, produced, store, metrics, ackCalls, faults>>
    /\ UNCHANGED nonPool

WorkerStep(w) ==
    \/ PGFetch(w)
    \/ PartFetch(w)
    \/ PGWake(w)
    \/ PGProcess(w)
    \/ PGComplete(w)
    \/ PGRecord(w)
    \/ PGCount(w)
    \/ StreamRead(w)
    \/ StreamProcess(w)
    \/ StreamAck(w)
    \/ StreamRecord(w)
    \/ ClaimList(w)
    \/ ClaimOne(w)
    \/ ClaimAck(w)
    \/ ClaimRecord(w)
    \/ ClaimReturn(w)

NextPG ==
    \/ Enqueue
    \/ \E j \in Jobs : LeaseExpire(j)
    \/ \E w \in Workers :
         \/ PGFetch(w)
         \/ PartFetch(w)
         \/ PGWake(w)
         \/ PGProcess(w)
         \/ PGComplete(w)
         \/ PGRecord(w)
         \/ PGCount(w)

NextStream ==
    \/ Enqueue
    \/ \E j \in Jobs : Age(j)
    \/ \E w \in Workers :
         \/ StreamRead(w)
         \/ StreamProcess(w)
         \/ StreamAck(w)
         \/ StreamRecord(w)
         \/ ClaimList(w)
         \/ ClaimOne(w)
         \/ ClaimAck(w)
         \/ ClaimRecord(w)
         \/ ClaimReturn(w)

Next ==
    \/ Enqueue
    \/ \E j \in Jobs : LeaseExpire(j)
    \/ \E j \in Jobs : Age(j)
    \/ \E w \in Workers : WorkerStep(w)

\* The worker pool over any of the four variants.
Spec == Init /\ [][Next]_vars

\* The pool over the three PostgreSQL variants, and over the stream.
InitPG == InitPool(PGVariants) /\ InitMetrics /\ InitAgg /\ InitLife
SpecPG == InitPG /\ [][NextPG]_vars
InitStream == InitPool({"stream"}) /\ InitMetrics /\ InitAgg /\ InitLife
SpecStream == InitStream /\ [][NextStream]_vars

\* The stream pool while the stream key may be deleted under it.
NextGroup ==
    \/ NextStream
    \/ GroupLost

SpecGroup == InitStream /\ [][NextGroup]_vars

\* --------------------------------------------- the worker process: main
\* The process runs until main has left through sys.exit or an uncaught
\* exception; its threads are daemon threads and end with it.
ProcessAlive == main.pc \in {"spawn", "join", "handler"}

\* main: worker = <Worker>(i, ...); Thread(target=worker.run).start() for
\* the next i. PostgreSQLWorker.__init__ connects, and an error of connect
\* leaves main; ValkeyWorker.__init__ creates a lazy client and catches the
\* error of xgroup_create with a warning.
MainSpawn ==
    /\ main.pc = "spawn"
    /\ main.started < NumWorkers
    /\ LET i == main.started
           after == IF i + 1 = NumWorkers THEN "join" ELSE "spawn"
       IN \/ /\ main' = [main EXCEPT !.started = i + 1, !.pc = after]
             /\ UNCHANGED faults
          \/ /\ Fault
             /\ main' = IF queue_type = "stream"
                        THEN [main EXCEPT !.started = i + 1, !.pc = after,
                                          !.unreachable = @ \cup {i}]
                        ELSE [main EXCEPT !.pc = "aborted"]
    /\ UNCHANGED <<queue_type, produced, store, wk, ackCalls, metrics,
                   aggVars, partVars, now, running, prod, group>>

\* signal_handler: for worker in workers: worker.stop()
SignalStop ==
    /\ main.pc = "join"
    /\ running' = [w \in Workers |-> FALSE]
    /\ main' = [main EXCEPT !.pc = "handler"]
    /\ UNCHANGED <<poolVars, metrics, aggVars, partVars, now, prod, group>>

\* signal_handler: sys.exit(0) ends the main thread and with it the process.
SysExit ==
    /\ main.pc = "handler"
    /\ main' = [main EXCEPT !.pc = "exited"]
    /\ UNCHANGED <<poolVars, metrics, aggVars, partVars, now, running, prod,
                   group>>

\* run: the worker is at the head of its while loop.
AtLoopHead(w) == wk[w].pc = "fetch" /\ wk[w].pidx = 1

\* run: while self.running.is_set() is false; finally closes the connection.
LoopExit(w) ==
    /\ AtLoopHead(w)
    /\ ~running[w]
    /\ wk' = [wk EXCEPT ![w].pc = "stopped"]
    /\ UNCHANGED <<queue_type, produced, store, ackCalls, faults, metrics>>
    /\ UNCHANGED nonPool

\* process_job_*: cursor = self.conn.cursor(...) raises. The statement is
\* outside the try block and run catches KeyboardInterrupt only: the
\* exception ends the thread.
CursorFault(w) ==
    /\ queue_type \in PGVariants
    /\ AtLoopHead(w)
    /\ running[w]
    /\ Fault
    /\ wk' = [wk EXCEPT ![w].pc = "crashed"]
    /\ UNCHANGED <<queue_type, produced, store, ackCalls, metrics>>
    /\ UNCHANGED nonPool

\* One step of the thread of worker w: an iteration starts only with the
\* Event set.
Iterate(w) ==
    /\ AtLoopHead(w) => running[w]
    /\ WorkerStep(w)

RunStep(w) ==
    /\ ProcessAlive
    /\ w < main.started
    /\ \/ Iterate(w)
       \/ LoopExit(w)
       \/ CursorFault(w)

NextRun ==
    \/ Enqueue
    \/ \E j \in Jobs : LeaseExpire(j)
    \/ \E j \in Jobs : Age(j)
    \/ MainSpawn
    \/ SignalStop
    \/ SysExit
    \/ \E w \in Workers : RunStep(w)

\* main before it constructs its first worker.
InitRun ==
    /\ InitPool(Variants)
    /\ InitMetrics
    /\ InitAgg
    /\ now = 0
    /\ running = [w \in Workers |-> TRUE]
    /\ main = [pc |-> "spawn", started |-> 0, unreachable |-> {}]
    /\ prod = NoProducer
    /\ group = "created"

SpecRun == InitRun /\ [][NextRun]_vars

\* The pool over delete_returning alone, its threads scheduled fairly.
WorkerStepDR(w) ==
    \/ PGFetch(w)
    \/ PGWake(w)
    \/ PGProcess(w)
    \/ PGComplete(w)
    \/ PGRecord(w)
    \/ PGCount(w)

NextDR ==
    \/ Enqueue
    \/ \E w \in Workers : WorkerStepDR(w)

InitDR == InitPool({"delete_returning"}) /\ InitMetrics /\ InitAgg /\ InitLife
FairSpecDR ==
    InitDR /\ [][NextDR]_vars /\ \A w \in Workers : WF_vars(WorkerStepDR(w))

\* ------------------------------------- the stream after a consumer crash
\* One iteration step of a ValkeyWorker thread.
StreamStep(w) ==
    \/ StreamRead(w)
    \/ StreamProcess(w)
    \/ StreamAck(w)
    \/ StreamRecord(w)
    \/ ClaimList(w)
    \/ ClaimOne(w)
    \/ ClaimAck(w)
    \/ ClaimRecord(w)
    \/ ClaimReturn(w)

\* The entries a consumer that is gone has left in the pending list.
Stuck == 1 .. Backlog

LiveWorker == 0
CrashedWorker == 1

\* The consumer worker_1 read Backlog entries and its process was killed
\* before the batch xack; the entries have been idle for more than 5000 ms.
\* Some of them may carry a created_at field that is no ISO timestamp, so
\* that their processing raises on every attempt. One more entry waits
\* undelivered in the stream; worker_0 runs.
InitCrash ==
    /\ queue_type = "stream"
    /\ produced = Backlog + 1
    /\ \E bad \in SUBSET Stuck :
         store = [j \in 1 .. (Backlog + 1) |->
                  IF j \in Stuck
                  THEN [st |-> "pending", owner |-> CrashedWorker,
                        idle |-> "gt", partition_key |-> 0,
                        poison |-> j \in bad]
                  ELSE [st |-> "queued", owner |-> NoWorker,
                        idle |-> "lt", partition_key |-> 0,
                        poison |-> FALSE]]
    /\ cfg = [num_workers |-> ConfigNumWorkers, partitions |-> QueuePartitions]
    /\ args_workers = NumWorkers
    /\ pool = Constructed(args_workers, cfg)
    /\ wk = [w \in Workers |->
               IF w = CrashedWorker
               THEN [InitWorker(w, queue_type, <<>>) EXCEPT !.pc = "crashed"]
               ELSE InitWorker(w, queue_type, <<>>)]
    /\ ackCalls = [j \in 1 .. (Backlog + 1) |-> 0]
    /\ faults = 0
    /\ InitMetrics /\ InitAgg /\ InitLife

NextCrash ==
    \/ \E j \in DOMAIN store : Age(j)
    \/ \E w \in Workers : StreamStep(w)

\* The running worker's thread is scheduled, and time passes for every
\* pending entry.
FairSpecCrash ==
    /\ InitCrash
    /\ [][NextCrash]_vars
    /\ WF_vars(StreamStep(LiveWorker))
    /\ \A j \in 1 .. (Backlog + 1) : WF_vars(Age(j))

\* ------------------------------------------- MetricsCollector, at the lock
LockAlwaysAvailable(l) == TRUE

\* with self.lock: the lock is taken when no thread holds it.
LockAvailable(l) == l = Free

\* The latencies thread t records in one call: n samples.
Samples(t, n) == [i \in 1 .. n |-> t]

\* record_job (one sample) or record_jobs (a list of n): enter the lock.
RecordEnter(t) ==
    /\ rec[t].pc = "idle"
    /\ LockAvailable(lock)
    /\ \E n \in 1 .. rec[t].left :
         rec' = [rec EXCEPT ![t].pc = "load", ![t].n = n]
    /\ lock' = t
    /\ UNCHANGED <<metrics, snap>>
    /\ UNCHANGED nonAgg

\* self.jobs_processed += ...: the load of the counter
RecordLoad(t) ==
    /\ rec[t].pc = "load"
    /\ rec' = [rec EXCEPT ![t].pc = "store", ![t].tmp = metrics.jobs_processed]
    /\ UNCHANGED <<metrics, lock, snap>>
    /\ UNCHANGED nonAgg

RecordStoreReleasing(t) ==
    /\ rec[t].pc = "store"
    /\ metrics' = StoreCount(metrics, rec[t].tmp, Samples(t, rec[t].n))
    /\ rec' = [rec EXCEPT ![t].pc = "extend"]
    /\ lock' = Free
    /\ UNCHANGED snap
    /\ UNCHANGED nonAgg

\* self.jobs_processed += ...: the store of the counter
RecordStore(t) ==
    /\ rec[t].pc = "store"
    /\ metrics' = StoreCount(metrics, rec[t].tmp, Samples(t, rec[t].n))
    /\ rec' = [rec EXCEPT ![t].pc = "extend"]
    /\ UNCHANGED <<lock, snap>>
    /\ UNCHANGED nonAgg

\* self.latencies.append / extend
RecordExtend(t) ==
    /\ rec[t].pc = "extend"
    /\ metrics' = ExtendLatencies(metrics, Samples(t, rec[t].n))
    /\ rec' = [rec EXCEPT ![t].pc = "exit"]
    /\ UNCHANGED <<lock, snap>>
    /\ UNCHANGED nonAgg

\* The end of the with block releases the lock.
RecordExit(t) ==
    /\ rec[t].pc = "exit"
    /\ lock' = Free
    /\ rec' = [rec EXCEPT ![t] = [pc |-> "idle", n |-> 0, tmp |-> 0,
                                  left |-> rec[t].left - rec[t].n]]
    /\ UNCHANGED <<metrics, snap>>
    /\ UNCHANGED nonAgg

AwakeAlways(s) == TRUE

\* collect_metrics: time.sleep(BENCHMARK['metrics_interval']) has returned.
Awake(s) == now >= s.wake

\* collect_metrics calls save_metrics after its sleep; get_metrics: enter
\* the lock.
GetMetricsEnter ==
    /\ snap.pc = "idle"
    /\ Awake(snap)
    /\ LockAvailable(lock)
    /\ lock' = MetricsThread
    /\ snap' = [snap EXCEPT !.pc = "compute"]
    /\ UNCHANGED <<metrics, rec>>
    /\ UNCHANGED nonAgg

\* int(n * 0.50), int(n * 0.95), int(n * 0.99): the 0-based index of the
\* percentile pct (in hundredths) in the sorted list of n samples.
PercentileIndexCeil(n, pct) == ((n * pct + 99) \div 100) - 1

PercentileIndex(n, pct) == (n * pct) \div 100

ThroughputPerInterval(m, t) ==
    [num |-> m.jobs_processed, den |-> t - (snap.wake - MetricsInterval)]

\* self.jobs_processed / (time.time() - self.start_time), kept as the
\* quotient num / den of its two operands.
Throughput(m, t) == [num |-> m.jobs_processed, den |-> t - m.start_time]

\* time.time() - self.start_time
Elapsed(m, t) == t - m.start_time

\* The body of get_metrics: None without samples, else the metrics record
\* with the 'elapsed' entry elapsed, the rest computed at time t. n is
\* len(sorted_latencies); latency_avg is kept as the quotient sum / n of its
\* two operands.
GetMetrics(m, elapsed, t) ==
    IF m.latencies = EmptyBag THEN None
    ELSE LET sorted_latencies == SortedLatencies(m.latencies)
             n == Len(sorted_latencies)
         IN [elapsed |-> elapsed,
             jobs_processed |-> m.jobs_processed,
             throughput |-> Throughput(m, t),
             n |-> n,
             latency_p50 |-> sorted_latencies[PercentileIndex(n, 50) + 1],
             latency_p95 |-> sorted_latencies[PercentileIndex(n, 95) + 1],
             latency_p99 |-> sorted_latencies[PercentileIndex(n, 99) + 1],
             latency_min |-> sorted_latencies[1],
             latency_max |-> sorted_latencies[n],
             latency_avg |-> [sum |-> SumSeq(sorted_latencies), n |-> n]]

\* time.time() advances.
Tick ==
    /\ now < MaxClock
    /\ now' = now + 1
    /\ UNCHANGED <<poolVars, metrics, aggVars, partVars, running, main, prod,
                   group>>

\* get_metrics, under the lock: None without samples; else the samples
\* are sorted and the clock is read for the 'elapsed' entry.
GetMetricsElapsed ==
    /\ snap.pc = "compute"
    /\ snap' = IF metrics.latencies = EmptyBag
               THEN [snap EXCEPT !.pc = "exit", !.result = None]
               ELSE [snap EXCEPT !.pc = "throughput",
                                 !.elapsed = Elapsed(metrics, now)]
    /\ UNCHANGED <<metrics, lock, rec>>
    /\ UNCHANGED nonAgg

\* get_metrics, under the lock: the clock is read again for the
\* 'throughput' entry, and the remaining entries are computed.
GetMetricsCompute ==
    /\ snap.pc = "throughput"
    /\ snap' = [snap EXCEPT !.pc = "exit",
                            !.result = GetMetrics(metrics, snap.elapsed, now)]
    /\ UNCHANGED <<metrics, lock, rec>>
    /\ UNCHANGED nonAgg

\* save_metrics without a snapshot returns to collect_metrics, which
\* sleeps for the metrics interval.
AfterGetMetrics(s) ==
    IF s.result # None THEN [s EXCEPT !.pc = "write"]
    ELSE [s EXCEPT !.pc = "idle", !.wake = now + MetricsInterval]

GetMetricsExitHolding ==
    /\ snap.pc = "exit"
    /\ snap' = AfterGetMetrics(snap)
    /\ UNCHANGED <<metrics, rec, lock>>
    /\ UNCHANGED nonAgg

\* get_metrics returns and releases the lock; save_metrics goes on to
\* write the snapshot when there is one.
GetMetricsExit ==
    /\ snap.pc = "exit"
    /\ lock' = Free
    /\ snap' = AfterGetMetrics(snap)
    /\ UNCHANGED <<metrics, rec>>
    /\ UNCHANGED nonAgg

WriteTruncating(sink, line) == <<line>>

\* open(self.output_file, 'a'); f.write(json.dumps(metrics) + '\n')
Write(sink, line) == Append(sink, line)

\* save_metrics: the snapshot is appended to the output file; the metrics
\* thread then sleeps for the metrics interval.
SaveMetricsWrite ==
    /\ snap.pc = "write"
    /\ snap' = [snap EXCEPT !.pc = "idle", !.wake = now + MetricsInterval,
                            !.sink = Write(snap.sink, snap.result)]
    /\ UNCHANGED <<metrics, rec, lock>>
    /\ UNCHANGED nonAgg

NextAgg ==
    \/ \E t \in Recorders :
         \/ RecordEnter(t)
         \/ RecordLoad(t)
         \/ RecordStore(t)
         \/ RecordExtend(t)
         \/ RecordExit(t)
    \/ GetMetricsEnter
    \/ GetMetricsElapsed
    \/ GetMetricsCompute
    \/ GetMetricsExit
    \/ SaveMetricsWrite
    \/ Tick

\* NumRecorders threads, each with SamplesEach samples to record, and the
\* metrics thread.
InitRecorders ==
    /\ lock = Free
    /\ rec = [t \in Recorders |->
                [pc |-> "idle", n |-> 0, tmp |-> 0, left |-> SamplesEach]]
    /\ snap = NewSnap

InitCollector ==
    InitPool({"skip_locked"}) /\ InitMetrics /\ InitRecorders /\ InitLife
SpecAgg == InitCollector /\ [][NextAgg]_vars

\* The collector holding a given multiset of samples, and the metrics
\* thread taking snapshots of it: every multiset of up to MaxSamples
\* latencies, and the samples 1 .. 100.
SampleLists ==
    UNION {[1 .. k -> 1 .. MaxLatency] : k \in 0 .. MaxSamples}
        \cup {[i \in 1 .. 100 |-> i]}

InitSnapshot ==
    /\ InitPool({"skip_locked"})
    /\ InitAgg
    /\ InitLife
    /\ \E l \in SampleLists :
         metrics = [jobs_processed |-> Len(l), latencies |-> SeqToBag(l),
                    start_time |-> 0]

NextSnap ==
    \/ GetMetricsEnter
    \/ GetMetricsElapsed
    \/ GetMetricsCompute
    \/ GetMetricsExit
    \/ SaveMetricsWrite
    \/ Tick

SpecSnap == InitSnapshot /\ [][NextSnap]_vars

\* ------------------------------------------- main: constructing the pool
\* main: worker = PostgreSQLWorker(i, 'partitioned', metrics)
SpawnWorker ==
    /\ Len(pool) < args_workers
    /\ pool' = Append(pool, PartitionsOf(Len(pool), cfg.num_workers,
                                         cfg.partitions))
    /\ UNCHANGED <<cfg, args_workers>>
    /\ UNCHANGED nonPart

\* Before main constructs the first worker, for a range of configurations.
\* The configuration of config.py.
DefaultConfig ==
    [num_workers |-> DefaultNumWorkers, partitions |-> DefaultPartitions]

\* The partition keys the producer gives to the jobs of the partitioned table.
ProducerPartitionKeys == 0 .. MaxPartitionKey

InitPart ==
    /\ cfg \in [num_workers : 1 .. MaxPoolWorkers,
                partitions : 1 .. MaxPartitions] \cup {DefaultConfig}
    /\ args_workers \in (1 .. MaxPoolWorkers)
                           \cup {DefaultNumWorkers, DefaultPartitions}
    /\ pool = <<>>
    /\ queue_type = "partitioned"
    /\ produced = 0
    /\ store = [j \in Jobs |-> NoEntry]
    /\ wk = [w \in Workers |-> InitWorker(w, queue_type, <<>>)]
    /\ ackCalls = [j \in Jobs |-> 0]
    /\ faults = 0

NextPart == SpawnWorker

InitMain == InitPart /\ InitMetrics /\ InitAgg /\ InitLife
SpecPart == InitMain /\ [][NextPart]_vars

\* ======================================================== properties
\* Worker w is between the fetch (or claim) of job j and its acknowledge.
Holds(w, j) ==
    \/ wk[w].pc \in {"process", "complete"} /\ wk[w].job = j
    \/ wk[w].pc \in {"process", "xack"} /\ j \in SeqToSet(wk[w].messages)
    \/ wk[w].pc \in {"xclaim", "claim_xack"} /\ j \in SeqToSet(wk[w].claimed_ids)

Enqueued(j) == store[j].st # "none"
Acknowledged(j) == ackCalls[j] >= 1

\* C1: with fair scheduling (and no worker crash: no worker of the model
\* ever stops), every enqueued job is eventually acknowledged, and no job is
\* acknowledged more than once, in each of the four variants.
C1_EventuallyAcknowledgedOnce ==
    /\ \A j \in Jobs : Enqueued(j) ~> Acknowledged(j)
    /\ [](\A j \in Jobs : ackCalls[j] <= 1)

\* C2: over the whole run the acknowledge operation goes through at most
\* once for each job, whatever the interleaving of fetch, reclaim and
\* acknowledge steps.
C2_AcknowledgedAtMostOnce == \A j \in Jobs : ackCalls[j] <= 1

\* C3: each job contributes at most one latency sample to the collector.
C3_OneSamplePerJob == \A j \in Jobs : CopiesIn(j, metrics.latencies) <= 1

\* C4: between its fetch and its acknowledge a job is held by one worker:
\* no two workers are processing the same job at the same time.
C4_HeldByOneWorker ==
    \A j \in Jobs : Cardinality({w \in Workers : Holds(w, j)}) <= 1

\* C5: a fetched job whose acknowledge did not succeed is never lost: every
\* enqueued job is in the store (visible, leased or pending), completed or
\* archived, or in the hands of a worker that is still to acknowledge it.
C5_NoJobLost ==
    \A j \in Jobs :
        Enqueued(j) =>
            \/ store[j].st \in {"queued", "leased", "pending", "done"}
            \/ \E w \in Workers : Holds(w, j)

\* Partitions owned by the workers constructed so far.
Owned == UNION {SeqToSet(pool[k]) : k \in DOMAIN pool}
PoolComplete == Len(pool) = args_workers

\* C6: with W workers over P partitions, 1 <= W <= P, every partition index
\* 0..P-1 is owned by at least one of the workers 0..W-1.
C6_EveryPartitionOwned ==
    (/\ PoolComplete
     /\ args_workers = cfg.num_workers
     /\ cfg.num_workers <= cfg.partitions)
        => (0 .. (cfg.partitions - 1)) \subseteq Owned

CeilDiv(a, b) == (a + b - 1) \div b

AllRecorded == \A t \in Recorders : rec[t].pc = "idle" /\ rec[t].left = 0

\* C8: after K threads have each recorded M samples, by single or batch
\* records in any interleaving, the sample count and jobs_processed are K*M.
C8_NoLostUpdates ==
    AllRecorded =>
        /\ metrics.jobs_processed = NumRecorders * SamplesEach
        /\ BagCardinality(metrics.latencies) = NumRecorders * SamplesEach

C8_Witness ==
    /\ AllRecorded
    /\ \A t \in Recorders : CopiesIn(t, metrics.latencies) = SamplesEach

\* C9: whenever the lock is free, and in every snapshot, jobs_processed
\* equals the number of stored latencies.
C9_CountEqualsSamples ==
    /\ lock = Free => metrics.jobs_processed = BagCardinality(metrics.latencies)
    /\ snap.result # None => snap.result.jobs_processed = snap.result.n

C9_Witness ==
    /\ lock = Free
    /\ snap.result # None
    /\ metrics.jobs_processed > snap.result.n
    /\ \E t \in Recorders : rec[t].left > 0

\* Sum of the workers' own counters self.jobs_processed.
WorkerCounts ==
    SumSeq([i \in 1 .. NumWorkers |-> wk[i - 1].jobs_processed])

\* PostgreSQL workers that have recorded their job and not yet counted it.
RecordedNotCounted == Cardinality({w \in Workers : wk[w].pc = "count"})

\* Messages the stream workers have counted and not yet recorded.
CountedNotRecorded ==
    SumSeq([i \in 1 .. NumWorkers |-> Len(wk[i - 1].batch_latencies)])

\* C10 as stated: at any instant the collector's sample count equals the sum
\* of the workers' counters.
C10_SamplesEqualWorkerCounts ==
    BagCardinality(metrics.latencies) = WorkerCounts

\* C10 as amended: the collector's sample count (and its jobs_processed)
\* equals the sum of the workers' counters, plus the PostgreSQL workers
\* between record_job and their own increment, minus the messages the
\* stream workers have counted but not yet passed to record_jobs.
C10_SamplesTrackWorkerCounts ==
    /\ BagCardinality(metrics.latencies)
          = WorkerCounts + RecordedNotCounted - CountedNotRecorded
    /\ metrics.jobs_processed = BagCardinality(metrics.latencies)

C10_Witness ==
    /\ \A w \in Workers : wk[w].pc = "fetch" /\ wk[w].jobs_processed >= 1
    /\ BagCardinality(metrics.latencies) = WorkerCounts
    /\ BagCardinality(metrics.latencies) > MaxJobs

\* C11: snapshots are cumulative. No step removes a sample from the
\* collector, and a snapshot that follows another one is never None and has
\* elapsed and jobs_processed greater than or equal to the earlier one's.
C11_SnapshotsCumulative ==
    [][/\ metrics.latencies \sqsubseteq metrics'.latencies
       /\ (snap.result # None /\ snap'.result # snap.result) =>
              /\ snap'.result # None
              /\ snap'.result.elapsed >= snap.result.elapsed
              /\ snap'.result.jobs_processed >= snap.result.jobs_processed]_vars

\* A snapshot was taken, time has passed and samples were recorded since, and
\* the metrics thread is computing the next snapshot.
C11_Witness ==
    /\ snap.pc = "compute"
    /\ snap.result # None
    /\ now > snap.result.elapsed
    /\ metrics.jobs_processed > snap.result.jobs_processed

\* The sum of the samples of bag B: each distinct value times its copies.
BagSum(B) ==
    LET S == BagToSet(B)
        vals == [i \in 1 .. Cardinality(S) |->
                    CHOOSE x \in S : Cardinality({y \in S : y < x}) = i - 1]
    IN SumSeq([i \in 1 .. Cardinality(S) |-> vals[i] * CopiesIn(vals[i], B)])

\* v is the element at 0-based index k of the sorted samples of B.
IsRank(B, v, k) ==
    /\ BagIn(v, B)
    /\ Below(B, v) <= k
    /\ k < Below(B, v) + CopiesIn(v, B)

\* C12: a snapshot of n > 0 samples reports as p50, p95 and p99 the element
\* at index floor(pctl * n) of the sorted samples, as min and max the
\* smallest and the largest sample and as avg their sum over n; for the
\* samples 1 .. 100 that is p50 = 51, p95 = 96, p99 = 100.
C12_NearestRankPercentiles ==
    (snap.result # None) =>
        LET r == snap.result
            B == metrics.latencies
            n == BagCardinality(B)
        IN /\ IsRank(B, r.latency_p50, (50 * n) \div 100)
           /\ IsRank(B, r.latency_p95, (95 * n) \div 100)
           /\ IsRank(B, r.latency_p99, (99 * n) \div 100)
           /\ IsRank(B, r.latency_min, 0)
           /\ IsRank(B, r.latency_max, n - 1)
           /\ r.latency_avg = [sum |-> BagSum(B), n |-> n]
           /\ (B = SetToBag(1 .. 100)) =>
                  /\ r.latency_p50 = 51
                  /\ r.latency_p95 = 96
                  /\ r.latency_p99 = 100

\* The snapshot of the samples 1 .. 100 has been computed.
C12_Witness ==
    /\ snap.result # None
    /\ snap.result.n = 100
    /\ snap.result.latency_p95 = 96
    /\ snap.result.latency_avg.sum = 5050

\* C13: a run that is not interrupted returns with jobs_produced equal to
\* rate * duration, whatever the rate and however many batch writes failed.
C13_ProducesRateTimesDuration ==
    (prod.pc = "done" /\ ~prod.interrupted) =>
        prod.jobs_produced = prod.rate * prod.duration

\* C14: a failed batch write is rolled back as a unit and the producer goes
\* on. The failing step and the rollback leave the visible jobs and
\* jobs_produced unchanged; the rollback empties the transaction and
\* returns to run, which goes on with its loop; and no step makes more than
\* one batch visible, so
\* the rows of a failed batch never become visible with a later commit.
C14_FailedBatchRolledBack ==
    [][/\ (prod.pc # "none" /\ prod'.failed > prod.failed) =>
              /\ prod'.committed = prod.committed
              /\ prod'.jobs_produced = prod.jobs_produced
              /\ prod'.pc = IF prod.backend = "pg" THEN "rollback" ELSE "pace"
       /\ (prod.pc = "rollback" /\ prod' # prod /\ ~prod'.interrupted) =>
              /\ prod'.committed = prod.committed
              /\ prod'.jobs_produced = prod.jobs_produced
              /\ prod'.uncommitted = 0
              /\ prod'.pc = "pace"
       /\ (prod.pc # "none") =>
              prod'.committed - prod.committed \in {0, prod.batch_size}]_vars

\* A batch of the PostgreSQL producer failed at its commit and was rolled
\* back, and a later batch has been committed.
C14_Witness ==
    /\ prod.pc = "credit"
    /\ prod.backend = "pg"
    /\ prod.failed = 1
    /\ prod.batch_size > 1
    /\ prod.committed > prod.jobs_produced

\* C15: on every exit from run the final summary reports the number of jobs
\* committed to the store, no batch is submitted after the exit, and the
\* connection is closed exactly once.
C15_SummaryMatchesStore ==
    [][(prod.pc # "none") =>
         /\ prod'.pc \in {"close", "done"} => prod'.summary = prod'.committed
         /\ prod'.pc = "done" => prod'.closed = 1
         /\ prod.pc \in {"finally", "close", "done"} =>
                prod'.submitted = prod.submitted]_vars

\* C16: an error of a backend operation of an iteration is caught within
\* the iteration: a worker has left its loop only with its stop flag
\* cleared, never because of an error.
C16_ErrorsNeverEndWorker ==
    \A w \in Workers :
        wk[w].pc \in {"stopped", "crashed"} => ~running[w]

\* Worker w has a job or batch in flight: fetched or claimed and not yet
\* acknowledged, or acknowledged and not yet recorded in the metrics.
InFlight(w) ==
    \/ \E j \in Jobs : Holds(w, j)
    \/ wk[w].pc \in {"record", "claim_record"}

\* C17: stop is cooperative. When the process has ended on the stop
\* signal, no worker was cut off with a job or batch in flight, and a
\* worker that has left its loop on the flag has nothing in flight.
C17_StopFinishesInFlightWork ==
    \A w \in Workers :
        (main.pc = "exited" \/ wk[w].pc = "stopped") => ~InFlight(w)

\* C18: a failed initial connection aborts the process before any worker
\* loop has started. When main is aborted by a failed connect, no job has
\* been fetched by any worker; and a stream worker whose store was
\* unreachable when it was constructed takes no step of its loop.
C18_FailedConnectAbortsBeforeWork ==
    [][/\ main'.pc = "aborted" =>
              \A j \in Jobs : store'[j].st \in {"none", "queued"}
       /\ \A w \in main.unreachable : wk'[w] = wk[w]]_vars

\* This step is the sweep of worker w obtaining entry j from xclaim.
ClaimedBy(w, j) ==
    /\ Len(wk'[w].claimed_ids) = Len(wk[w].claimed_ids) + 1
    /\ wk'[w].claimed_ids[Len(wk'[w].claimed_ids)] = j

C20_OneSweepObtainsEntry ==
    \A j \in Jobs :
        Cardinality({w \in Workers : j \in SeqToSet(wk[w].claimed_ids)}) <= 1

\* C21: an entry its crashed consumer has left pending and idle for longer
\* than the threshold is eventually claimed by the running worker and then
\* acknowledged, however many entries are pending beside it (a sweep lists
\* at most XPendingCount of them).
C21_StuckEntryReclaimed ==
    \A j \in Stuck :
        /\ (store[j].st = "pending" /\ store[j].owner = CrashedWorker
               /\ IdleExceeds(store[j].idle) /\ ~Poison(j))
              ~> (store[j].st = "pending" /\ store[j].owner = LiveWorker)
        /\ (store[j].st = "pending" /\ store[j].owner = LiveWorker
               /\ ~Poison(j))
              ~> (store[j].st = "done" /\ ackCalls[j] > 0)

\* A sweep has listed XPendingCount entries, the entry behind them was left
\* out, and a later sweep has claimed and acknowledged it.
C21_Witness ==
    /\ store[Backlog].st = "done"
    /\ ackCalls[Backlog] > 0
    /\ \A j \in Stuck : store[j].st = "done"

\* Worker w takes a step from one of the positions pcs while the consumer
\* group is missing: the backend call of that step raises NOGROUP.
NoGroupStep(w, pcs) ==
    /\ ~GroupExists
    /\ wk[w].pc \in pcs
    /\ wk'[w] # wk[w]

\* C22 (as stated): whichever call finds the consumer group missing (the
\* batch read or a call of the pending-entry sweep), the worker recreates
\* the group in handling that failure, unless the create call itself
\* fails, and does not terminate.
C22_RecreatedOnAnyDetection ==
    [][\A w \in Workers :
          NoGroupStep(w, {"fetch", "xpending", "xclaim"}) =>
              /\ group' = "recreated" \/ faults' # faults
              /\ wk'[w].pc \notin {"stopped", "crashed"}]_vars

\* C22 (amended): only the batch read recreates the group. A batch read
\* that finds the group missing creates it (unless the create call fails)
\* and returns no entries; a sweep that finds it missing leaves it missing
\* and returns; the worker never terminates, and a batch read against the
\* recreated group delivers the undelivered entries.
C22_RecreatedByNextRead ==
    [][\A w \in Workers :
          /\ NoGroupStep(w, {"fetch"}) =>
                /\ group' = "recreated" \/ faults' # faults
                /\ wk'[w].messages = <<>>
                /\ wk'[w].pc \in {"fetch", "xpending"}
          /\ NoGroupStep(w, {"xpending", "xclaim"}) =>
                /\ group' = group
                /\ wk'[w].pc \notin {"stopped", "crashed"}
          /\ (group = "recreated" /\ wk[w].pc = "fetch" /\ wk'[w] # wk[w]
                /\ Undelivered # <<>> /\ faults' = faults) =>
                wk'[w].messages = FirstN(Undelivered, BatchSize)]_vars

\* The group was lost and recreated, and an entry written to the new
\* stream has been read from the recreated group and acknowledged.
C22_Witness ==
    /\ group = "recreated"
    /\ \E j \in Jobs : store[j].st = "done" /\ ackCalls[j] > 0

\* C23: when the processing of one message of a fetched batch raises,
\* exactly that message is left out of the acknowledge batch and of the
\* recorded samples; the batch acknowledge covers every other message of
\* the batch and does not touch the failed one, which stays pending.
C23_OnlyFailedMessageExcluded ==
    [][\A w \in Workers :
          LET r == wk[w]
              acked == SeqToSet(wk'[w].message_ids_to_ack)
          IN /\ (r.pc = "process" /\ wk'[w].pc = "xack") =>
                   /\ acked \subseteq SeqToSet(r.messages)
                   /\ Cardinality(SeqToSet(r.messages) \ acked)
                        = faults' - faults
                   /\ wk'[w].batch_latencies = wk'[w].message_ids_to_ack
             /\ (r.pc = "xack" /\ wk'[w].pc = "record"
                   /\ faults' = faults) =>
                   \A m \in SeqToSet(r.messages) :
                       IF m \in SeqToSet(r.message_ids_to_ack)
                       THEN store'[m].st = "done" /\ ackCalls'[m] = ackCalls[m] + 1
                       ELSE store'[m] = store[m] /\ ackCalls'[m] = ackCalls[m]
             /\ (r.pc = "record" /\ wk'[w] # r) =>
                   metrics'.latencies =
                       metrics.latencies (+) SeqToBag(r.message_ids_to_ack)
       ]_vars

\* A worker has finished a batch of two messages of which one raised: the
\* other one is acknowledged and recorded, the failed one is still pending
\* for the worker, unacknowledged and without a sample.
C23_Witness ==
    \E w \in Workers :
        /\ wk[w].pc = "fetch"
        /\ wk[w].jobs_processed = 1
        /\ store[1].st = "done" /\ ackCalls[1] = 1
        /\ store[2].st = "pending" /\ store[2].owner = w /\ ackCalls[2] = 0
        /\ metrics.jobs_processed = 1
        /\ CopiesIn(1, metrics.latencies) = 1

\* C24: for a fetch that returned entries a StreamGroup worker issues at
\* most one acknowledge call, with exactly the ids it has collected (at
\* most BatchSize of them, all of the fetched batch), and that call is
\* followed by exactly one update of the aggregator, of the size of the
\* acknowledge call: never one update per message.
C24_OneAckOneUpdatePerFetch ==
    [][\A w \in Workers :
          LET r == wk[w]
              ids == r.message_ids_to_ack
          IN /\ (r.pc = "xack" /\ wk'[w] # r) =>
                   /\ r.iter_acks = 0 /\ r.iter_updates = 0
                   /\ Len(ids) \in 1 .. BatchSize
                   /\ SeqToSet(ids) \subseteq SeqToSet(r.messages)
                   /\ wk'[w].pc = "record"
                   /\ faults' = faults =>
                         \A j \in Jobs :
                             ackCalls'[j] = ackCalls[j] +
                                 (IF j \in SeqToSet(ids) THEN 1 ELSE 0)
             /\ (r.pc = "record" /\ wk'[w] # r) =>
                   /\ r.iter_acks = 1 /\ r.iter_updates = 0
                   /\ metrics'.jobs_processed
                        = metrics.jobs_processed + Len(ids)
                   /\ BagCardinality(metrics'.latencies)
                        = BagCardinality(metrics.latencies) + Len(ids)
                   /\ wk'[w].pc \in {"fetch", "xpending"}
             /\ (r.pc \in {"process", "xack", "record"}) =>
                   metrics'.jobs_processed = metrics.jobs_processed
                   \/ \E v \in Workers :
                         wk[v].pc \in {"record", "claim_record"}
                         /\ wk'[v] # wk[v]
       ]_vars

\* A worker has fetched a full batch, acknowledged it with one call and
\* passed it to the aggregator with one update of the size of the batch.
C24_Witness ==
    \E w \in Workers :
        /\ wk[w].pc = "xpending"
        /\ wk[w].iter_acks = 1 /\ wk[w].iter_updates = 1
        /\ wk[w].jobs_processed = BatchSize
        /\ metrics.jobs_processed = BatchSize
        /\ \A j \in 1 .. BatchSize : ackCalls[j] = 1

\* C25: no thread holds the collector's lock while it is outside the
\* in-memory update or the in-memory snapshot computation: a recording
\* thread not while it is in its worker loop (backend calls, the processing
\* sleep), the metrics thread not while it writes a snapshot to the output
\* file or sleeps; and the lock is free whenever no thread is inside.
C25_LockHeldOnlyInMemory ==
    /\ \A t \in Recorders :
          lock = t <=> rec[t].pc \in {"load", "store", "extend", "exit"}
    /\ lock = MetricsThread <=> snap.pc \in {"compute", "throughput", "exit"}

\* The metrics thread writes a snapshot to the output file while a
\* recording thread is inside record_job(s) with the lock.
C25_Witness ==
    /\ snap.pc = "write"
    /\ \E t \in Recorders : lock = t /\ rec[t].pc = "store"

\* C26: a latency sample of a job is recorded only after an acknowledge
\* call for that job has returned without error: a job whose acknowledge
\* failed has no sample in the aggregator.
C26_SampleOnlyAfterAck ==
    \A j \in Jobs : CopiesIn(j, metrics.latencies) > 0 => ackCalls[j] > 0

C28_FixedBackoff ==
    [][\A w \in Workers :
          LET r == wk[w]
          IN /\ (queue_type \in {"skip_locked", "delete_returning"}
                   /\ r.pc = "fetch" /\ wk'[w] # r
                   /\ wk'[w].errors = r.errors) =>
                   \/ wk'[w].pc = "process" /\ wk'[w].job # NoJob
                   \/ wk'[w].pc = "sleep"
             /\ wk'[w].pc = "sleep" =>
                   wk'[w].backoff = WorkerPollIntervalMs
             /\ (r.pc = "sleep" /\ wk'[w] # r) =>
                   wk'[w].pc = "fetch" /\ wk'[w].pidx = 1
       ]_vars

\* A worker backs off after an empty fetch that followed a failed call,
\* for the poll interval.
C28_Witness ==
    /\ queue_type \in {"skip_locked", "delete_returning"}
    /\ faults > 0
    /\ \E w \in Workers :
          wk[w].pc = "sleep" /\ wk[w].backoff = WorkerPollIntervalMs

\* Worker w is inside process_messages, or at the loop head before it.
InProcessMessages(w) == wk[w].pc \in {"fetch", "process", "xack", "record"}

\* C29: the reclaim sweep of a worker runs after every ClaimEvery-th call
\* of process_messages and at no other time: claim_counter is below
\* ClaimEvery at every loop head, grows by one with every return of
\* process_messages (with entries, without, or after an error), the sweep
\* starts exactly when it reaches ClaimEvery, and it is 0 after the sweep.
C29_SweepEveryKthFetch ==
    [][\A w \in Workers :
          LET r == wk[w]
              q == wk'[w]
          IN /\ r.pc = "fetch" => r.claim_counter \in 0 .. (ClaimEvery - 1)
             /\ (InProcessMessages(w) /\ q # r
                   /\ q.pc \in {"fetch", "xpending"}) =>
                   /\ q.claim_counter = r.claim_counter + 1
                   /\ q.pc = "xpending" <=> q.claim_counter = ClaimEvery
             /\ (InProcessMessages(w) /\ q.pc \notin {"fetch", "xpending"}) =>
                   q.claim_counter = r.claim_counter
             /\ (~InProcessMessages(w) /\ q # r) =>
                   /\ r.claim_counter = ClaimEvery
                   /\ IF q.pc = "fetch" THEN q.claim_counter = 0
                      ELSE /\ q.claim_counter = ClaimEvery
                           /\ q.pc \in {"xclaim", "claim_xack",
                                         "claim_record", "claim_return"}
       ]_vars

\* A sweep starts after ClaimEvery fetches of which one failed and one
\* returned entries.
C29_Witness ==
    \E w \in Workers :
        /\ wk[w].pc = "xpending"
        /\ wk[w].claim_counter = ClaimEvery
        /\ wk[w].jobs_processed > 0
        /\ faults > 0
        /\ \A v \in Workers \ {w} :
              wk[v].jobs_processed = 0 /\ wk[v].claim_counter = 0
                 /\ wk[v].pc = "fetch"

\* C30: the entries claimed by a sweep are acknowledged and recorded with
\* the fetched entries of the same loop iteration: an iteration of a
\* worker has at most one acknowledge call, and no update of the
\* aggregator before the sweep of that iteration is over.
C30_SweepFoldedIntoBatchAck ==
    \A w \in Workers :
        /\ wk[w].iter_acks <= 1
        /\ wk[w].pc \in {"xpending", "xclaim", "claim_xack", "claim_record",
                          "claim_return"} => wk[w].iter_updates = 0


\* C31: a message whose processing fails on every attempt stays pending and
\* is never acknowledged, and under fair scheduling the reclaim sweeps of the
\* live consumer claim it again and again, without end.
C31_PoisonRedeliveredForever ==
    \A j \in Stuck :
        /\ [](Poison(j) => (store[j].st = "pending" /\ ackCalls[j] = 0))
        /\ []<>(Poison(j) =>
                  (store[j].owner = LiveWorker /\ ~IdleExceeds(store[j].idle)))


\* Batch attempts whose rate limiting step has been taken.
Paced ==
    IF prod.pc \in {"commit", "credit", "rollback", "pace"}
    THEN prod.submitted - 1 ELSE prod.submitted

\* C32: after k batch attempts the schedule pointer is start_time plus k
\* intervals, whatever the attempts' outcome and however long they took; the
\* step that advances it puts the producer to sleep exactly when the new
\* pointer is later than the clock, and lets it go on with the next batch
\* otherwise; no other step changes the pointer.
C32_PointerAdvancesByInterval ==
    /\ []((prod.pc \in {"loop", "write", "commit", "credit", "rollback",
                         "pace", "sleep"}) =>
             prod.next_batch_time = prod.start_time + Paced * prod.interval)
    /\ [][/\ (prod.pc = "pace" /\ prod' # prod /\ ~prod'.interrupted) =>
                /\ prod'.next_batch_time = prod.next_batch_time + prod.interval
                /\ prod'.pc = IF prod'.next_batch_time > now THEN "sleep"
                                                              ELSE "loop"
          /\ (prod.pc \notin {"start", "pace"}) =>
                prod'.next_batch_time = prod.next_batch_time
          /\ (prod.pc = "sleep" /\ prod'.pc = "loop") =>
                now >= prod.next_batch_time]_vars

\* After a failed and a successful batch the producer is behind its schedule
\* and goes on with the next batch without sleeping.
C32_Witness ==
    /\ prod.pc = "write"
    /\ prod.submitted >= 2
    /\ prod.failed >= 1
    /\ prod.jobs_produced > 0
    /\ now > prod.next_batch_time
    /\ prod.batch_size > 1


\* The snapshots get_metrics has returned or save_metrics has written.
Snapshots ==
    {snap.sink[i] : i \in 1 .. Len(snap.sink)}
        \cup (IF snap.result # None THEN {snap.result} ELSE {})

\* C33 (as stated): in every snapshot throughput is jobs_processed divided
\* by the snapshot's own elapsed entry, which is not zero.
C33_ThroughputOverOwnElapsed ==
    \A r \in Snapshots :
        /\ r.throughput.num = r.jobs_processed
        /\ r.throughput.den = r.elapsed
        /\ r.throughput.den > 0

\* C33: in every snapshot throughput is jobs_processed divided by the
\* seconds since the collector was created, read from the clock after the
\* elapsed entry was: the divisor is positive and at least the elapsed
\* entry, so that throughput * elapsed <= jobs_processed.
C33_ThroughputOverLaterElapsed ==
    \A r \in Snapshots :
        /\ r.throughput.num = r.jobs_processed
        /\ r.throughput.den >= r.elapsed
        /\ r.elapsed >= MetricsInterval
        /\ r.throughput.den > 0

\* A written snapshot whose throughput was computed at a later time than
\* its elapsed entry.
C33_Witness ==
    \E i \in 1 .. Len(snap.sink) :
        /\ snap.sink[i].throughput.den > snap.sink[i].elapsed
        /\ snap.sink[i].jobs_processed > 0

\* C34: a tick of the metrics thread appends one snapshot to the output
\* file if the collector holds a sample when get_metrics looks, and writes
\* nothing if it holds none; the lines written before stay as they are;
\* and no step of the metrics thread changes the collector's samples or
\* counter.
C34_TickAppendsOneSnapshot ==
    [][/\ (snap.pc = "compute" /\ snap' # snap) =>
              (snap'.pc = "exit" /\ snap'.result = None)
                  = (metrics.latencies = EmptyBag)
       /\ (snap.pc = "exit" /\ snap' # snap) =>
              /\ (snap'.pc = "idle") = (snap.result = None)
              /\ (snap'.pc = "write") = (snap.result # None)
       /\ (snap.pc = "write" /\ snap' # snap) =>
              /\ snap'.sink = Append(snap.sink, snap.result)
              /\ snap.result # None
              /\ snap'.pc = "idle"
       /\ (snap.pc # "write") => snap'.sink = snap.sink
       /\ (snap' # snap) => metrics' = metrics]_vars

\* Two ticks have written a snapshot each, the second of more jobs than the
\* first, and the metrics thread sleeps again.
C34_Witness ==
    /\ Len(snap.sink) = 2
    /\ snap.sink[1].jobs_processed < snap.sink[2].jobs_processed
    /\ snap.pc = "idle"


\* C35: with the configuration of config.py, every partition key the
\* producer gives to a job is owned by a worker of the pool, whatever the
\* number of workers main was told to start.
C35_ProducerKeysOwned ==
    (PoolComplete /\ cfg = DefaultConfig) => ProducerPartitionKeys \subseteq Owned


\* C36: the loop of run is bounded by the job count. A run that is not
\* interrupted leaves its loop only when jobs_produced has reached
\* total_jobs, which is after ceil(total_jobs / batch_size) successful
\* batches and not before: while the batch writes fail it goes on.
C36_LoopBoundedByJobCount ==
    (prod.pc \in {"finally", "close", "done"} /\ ~prod.interrupted) =>
        /\ prod.jobs_produced >= prod.total_jobs
        /\ prod.jobs_produced
              = CeilDiv(prod.total_jobs, prod.batch_size) * prod.batch_size


C38_ProducedInWholeBatches ==
    /\ [](LET batch_size == Max(1, prod.rate \div BatchesPerSecond)
          IN /\ prod.jobs_produced >= 0
             /\ prod.jobs_produced % batch_size = 0
             /\ prod.jobs_produced <= prod.total_jobs + batch_size - 1
             /\ prod.pc # "start" => prod.batch_size = batch_size)
    /\ [][\/ prod'.jobs_produced = prod.jobs_produced
          \/ /\ prod'.jobs_produced = prod.jobs_produced + prod.batch_size
             /\ prod.pc = "credit"
             /\ prod'.failed = prod.failed
             /\ prod.committed >= prod'.jobs_produced]_vars

\* A run with a failed batch has ended its loop with the largest excess
\* over total_jobs that a batch size of 3 allows.
C38_Witness ==
    /\ prod.pc = "finally"
    /\ prod.batch_size = 3
    /\ prod.failed >= 1
    /\ ~prod.interrupted
    /\ prod.jobs_produced = prod.total_jobs + prod.batch_size - 1


\* C39: for n >= 1 samples the indices int(n * 0.50), int(n * 0.95) and
\* int(n * 0.99) lie in 0 .. n-1, and every snapshot has
\* latency_min <= latency_p50 <= latency_p95 <= latency_p99 <= latency_max.
C39_PercentilesInRangeAndOrdered ==
    /\ \A n \in 1 .. 100 : \A pct \in {50, 95, 99} :
          PercentileIndex(n, pct) \in 0 .. (n - 1)
    /\ \A r \in Snapshots :
          /\ r.n >= 1
          /\ r.latency_min <= r.latency_p50
          /\ r.latency_p50 <= r.latency_p95
          /\ r.latency_p95 <= r.latency_p99
          /\ r.latency_p99 <= r.latency_max

\* A snapshot of four samples whose minimum, median and 95th percentile
\* are three different samples.
C39_Witness ==
    /\ snap.result # None
    /\ snap.result.n = MaxSamples
    /\ snap.result.latency_min < snap.result.latency_p50
    /\ snap.result.latency_p50 < snap.result.latency_p95
    /\ snap.result.latency_p99 = snap.result.latency_max

============================================================================
